---- MODULE Spec2Model ----
(***************************************************************************)
(* A state-machine model of utils/netloc/hardware/infiniband/              *)
(* netloc_ib_extract_dats.c: the processing of one InfiniBand subnet by    *)
(* main(): read_discover (ingestion of the discovery file, line by line,   *)
(* then the reverse-link pass), read_routes, build_paths (one step per     *)
(* iteration of the replay loop), netloc_network_explicit_set_partitions.  *)
(*                                                                         *)
(* Conventions.                                                            *)
(*  - C strings whose characters the code inspects are sequences of        *)
(*    one-character strings; strings that are only compared as a whole     *)
(*    (speed and type codes) are TLA+ strings.                             *)
(*  - A guid (16 hex characters) is the sequence of its four 4-character   *)
(*    groups.                                                              *)
(*  - A pointer to a node is the node's position in `nodes` (uthash keeps  *)
(*    insertion order, nodes are never removed while a subnet is           *)
(*    processed); 0 is NULL.  A pointer to a physical link is the pair     *)
(*    [node, idx] of the owning node and the 0-based index in its          *)
(*    physical_links array; [node |-> 0, idx |-> 0] is NULL.  A pointer to *)
(*    an edge is the position in the owning node's edges.                  *)
(*  - float bandwidths are exact rationals, kept as integers in units of   *)
(*    1/33 Gbit/s (every product rate*encoding of the table is a multiple  *)
(*    of 1/33).                                                            *)
(***************************************************************************)
EXTENDS Integers, Sequences, FiniteSets, TLC

VARIABLES
    subnet,           \* main(): the number of the subnet file being processed
    pc,               \* where main() is in the processing of the subnet;
                      \* "crashed_<function>": the process has died there
    lines,            \* the lines read_discover has read so far: linked-port
                      \* records and, where the file holds them, other lines
    nodes,            \* utils_node_t *nodes: the node hash, in insertion order
    unknown_node_id,  \* get_node's static counter
    global_link_idx,  \* read_discover's creation-order counter
    routes,           \* route_source_t *routes, in insertion order
    route,            \* read_routes: the current file's route_source (0: NULL)
    route_lines,      \* number of route lines read so far
    paths,            \* path_source_t *paths, in insertion order
    node_src,         \* build_paths: outer loop position (0: not in the loop)
    node_dest,        \* build_paths: inner loop position
    found_links,      \* build_paths: links of the pair being replayed
    node_cur,         \* build_paths: the replay's current node (0: NULL)
    partitions        \* UT_array partitions of main()

vars == <<subnet, pc, lines, nodes, unknown_node_id, global_link_idx, routes, route,
          route_lines, paths, node_src, node_dest, found_links, node_cur,
          partitions>>

(***************************************************************************)
(* Bounds of the model.                                                    *)
(***************************************************************************)
MaxRecords == 2

MaxRouteLines == 2

\* The records of a discovery file of FabricRecords.
MaxCables == 3

\* The records and the route lines of a subnet of LoopRecords.
MaxLoopRecords == 3

MaxLoopRouteLines == 4

\* The subnet files of the input directory.
MaxSubnets == 2

\* The lines of a discovery file of AnonymousRecords and OtherLines.
MaxLines == 3

(***************************************************************************)
(* Characters and C library functions.                                     *)
(***************************************************************************)
Range(s) == {s[i] : i \in 1..Len(s)}

Min(S) == CHOOSE x \in S : \A y \in S : x <= y

Digits == <<"0", "1", "2", "3", "4", "5", "6", "7", "8", "9">>

Lower == {"a", "b", "c", "d", "e", "f", "g", "h", "i", "j", "k", "l", "m",
          "n", "o", "p", "q", "r", "s", "t", "u", "v", "w", "x", "y", "z"}

Upper == {"A", "B", "C", "D", "E", "F", "G", "H", "I", "J", "K", "L", "M",
          "N", "O", "P", "Q", "R", "S", "T", "U", "V", "W", "X", "Y", "Z"}

IsDigit(c) == c \in Range(Digits)

DigitVal(c) == (CHOOSE d \in 1..10 : Digits[d] = c) - 1

\* atoi/atol on a string that starts with its digits: the leading integer.
RECURSIVE atoi_from(_, _, _)
atoi_from(s, i, acc) ==
    IF i <= Len(s) /\ IsDigit(s[i])
    THEN atoi_from(s, i + 1, acc * 10 + DigitVal(s[i]))
    ELSE acc

atoi(s) == atoi_from(s, 1, 0)

\* printf's %u.
RECURSIVE DecStr(_)
DecStr(n) == IF n < 10 THEN <<Digits[n + 1]>>
             ELSE Append(DecStr(n \div 10), Digits[(n % 10) + 1])

\* strcmp: 0 when the strings are equal, non-zero otherwise.
strcmp(a, b) == IF a = b THEN 0 ELSE 1

\* unsigned int arithmetic on the values the code computes: x+1 and x-1
\* modulo 2^32.  UINT_MAX stands for 4294967295, which is not a number TLC
\* holds; no other value of the model comes near it.
UINT_MAX == 2147483647

u_inc(x) == IF x = UINT_MAX THEN 0 ELSE x + 1

u_dec(x) == IF x = 0 THEN UINT_MAX ELSE x - 1

(***************************************************************************)
(* Node identity, type and hostname.                                       *)
(***************************************************************************)
\* "%.4s:%.4s:%.4s:%.4s" of guid, guid+4, guid+8, guid+12.
PhysicalId(guid) == <<guid[1], ":", guid[2], ":", guid[3], ":", guid[4]>>

netloc_node_type_decode(type) ==
    IF type = "CA" THEN "HOST"
    ELSE IF type = "SW" THEN "SWITCH"
    ELSE "INVALID"

\* node_find_hostname's scan: the index i at which the loop stops, that is the
\* number of characters copied and the index of the terminating NUL.  `name`
\* is the description after the optional leading quote; reading name[i] at
\* i = Len(name) reads the description's own NUL, which ends the scan.
RECURSIVE hostname_scan(_, _, _)
hostname_scan(name, max_size, i) ==
    IF i < max_size /\ i < Len(name)
       /\ (name[i + 1] \in Lower \/ IsDigit(name[i + 1]) \/ name[i + 1] = "-")
    THEN hostname_scan(name, max_size, i + 1)
    ELSE i

hostname_name(description) ==
    IF Len(description) > 0 /\ description[1] = "'" THEN Tail(description)
    ELSE description

hostname_end(description) ==
    hostname_scan(hostname_name(description), Len(description), 0)

node_find_hostname(description) ==
    SubSeq(hostname_name(description), 1, hostname_end(description))

NullLink == [node |-> 0, idx |-> 0]

\* A zero-filled utils_physical_link_t: what utarray_resize leaves in the
\* slots it adds.
EmptyLink ==
    [int_id |-> 0, ports |-> <<0, 0>>, width |-> <<>>, speed |-> "",
     gbits |-> 0, dest |-> 0, partitions |-> <<>>, parent_edge |-> 0,
     parent_node |-> 0, other_link |-> NullLink]

\* HASH_FIND_STR on a hash whose items carry the key in `physical_id`: the
\* position of the item, 0 when there is none.  Of several items with one key
\* uthash finds the one added last (HASH_ADD puts an item at the head of its
\* bucket's chain, which HASH_FIND walks from the head).
HASH_FIND_STR(hash, id) ==
    LET found == {k \in 1..Len(hash) : hash[k].physical_id = id}
    IN IF found = {} THEN 0 ELSE CHOOSE k \in found : \A m \in found : m <= k

\* The node get_node allocates; a HOST whose hostname is empty gets
\* "ANONYMOUS-<unknown_node_id>".
new_node(id, ntype, lid, desc, hostname, unk) ==
    [physical_id |-> id,
     logical_id |-> atoi(lid),
     type |-> ntype,
     edges |-> <<>>,
     description |-> desc,
     hostname |-> IF ntype = "HOST" /\ Len(hostname) = 0
                  THEN <<"A", "N", "O", "N", "Y", "M", "O", "U", "S", "-">>
                       \o DecStr(unk)
                  ELSE hostname,
     main_partition |-> -1,
     partitions |-> <<>>,
     physical_links |-> <<>>]

get_node_add(ns, unk, node) ==
    [nodes |-> Append(ns, node),
     unknown_node_id |-> IF node.type = "HOST"
                            /\ Len(node_find_hostname(node.description)) = 0
                         THEN u_inc(unk) ELSE unk,
     node |-> Len(ns) + 1]

\* A get_node that, finding the node, refreshes it from the record.
get_node_refreshing(ns, unk, type, lid, guid, desc) ==
    IF HASH_FIND_STR(ns, PhysicalId(guid)) = 0
    THEN get_node_add(ns, unk,
                      new_node(PhysicalId(guid), netloc_node_type_decode(type),
                               lid, desc, node_find_hostname(desc), unk))
    ELSE [nodes |->
             [ns EXCEPT
                 ![HASH_FIND_STR(ns, PhysicalId(guid))].type =
                     netloc_node_type_decode(type),
                 ![HASH_FIND_STR(ns, PhysicalId(guid))].logical_id = atoi(lid),
                 ![HASH_FIND_STR(ns, PhysicalId(guid))].description = desc],
          unknown_node_id |-> unk,
          node |-> HASH_FIND_STR(ns, PhysicalId(guid))]

\* get_node: the node hash, the static counter and the node returned.
get_node(ns, unk, type, lid, guid, desc) ==
    IF HASH_FIND_STR(ns, PhysicalId(guid)) = 0
    THEN get_node_add(ns, unk,
                      new_node(PhysicalId(guid), netloc_node_type_decode(type),
                               lid, desc, node_find_hostname(desc), unk))
    ELSE [nodes |-> ns, unknown_node_id |-> unk,
          node |-> HASH_FIND_STR(ns, PhysicalId(guid))]

(***************************************************************************)
(* Bandwidth.                                                              *)
(***************************************************************************)
\* The (rate, encoding) chosen by compute_gbits' chain of strcmp tests: rate
\* in 1/10000 Gbit/s, encoding as num/den; den = 0 stands for `return 1`.
gbits_table(speed) ==
    IF strcmp(speed, "SDR") # 0 THEN [rate |-> 25000, num |-> 8, den |-> 10]
    ELSE IF strcmp(speed, "DDR") # 0 THEN [rate |-> 50000, num |-> 8, den |-> 10]
    ELSE IF strcmp(speed, "QDR") # 0 THEN [rate |-> 100000, num |-> 8, den |-> 10]
    ELSE IF strcmp(speed, "FDR") # 0 THEN [rate |-> 140625, num |-> 64, den |-> 66]
    ELSE IF strcmp(speed, "FDR10") # 0 THEN [rate |-> 100000, num |-> 64, den |-> 66]
    ELSE IF strcmp(speed, "EDR") # 0 THEN [rate |-> 250000, num |-> 64, den |-> 66]
    ELSE [rate |-> 0, num |-> 0, den |-> 0]

\* compute_gbits, in 1/33 Gbit/s.  The width regex "([[:digit:]]*)x" is not
\* anchored: it matches any width that holds an x.
compute_gbits(speed, width) ==
    LET t == gbits_table(speed)
        x == IF "x" \in Range(width) THEN atoi(width) ELSE 0
    IN IF t.den = 0 THEN 33
       ELSE (x * t.rate * t.num * 33) \div (t.den * 10000)

(***************************************************************************)
(* read_discover: one linked-port record.                                  *)
(***************************************************************************)
\* HASH_FIND_STR(src_node->edges, dest_node->physical_id, edge).
find_edge(edges, id) ==
    LET found == {k \in 1..Len(edges) : edges[k].dest = id}
    IN IF found = {} THEN 0 ELSE CHOOSE k \in found : \A m \in found : m <= k

new_edge(id) ==
    [dest |-> id, total_gbits |-> 0, partitions |-> <<>>,
     physical_link_idx |-> <<>>]

\* A store that always inserts: utarray_insert makes room at port_idx by
\* moving the later slots up, also when the slot is taken.
store_link_inserting(links, link, port_idx) ==
    IF u_inc(port_idx) > Len(links)
    THEN links \o [k \in 1..(port_idx - Len(links)) |-> EmptyLink] \o <<link>>
    ELSE SubSeq(links, 1, port_idx) \o <<link>>
         \o SubSeq(links, port_idx + 1, Len(links))

\* The store into src_node->physical_links: utarray_insert at port_idx (the
\* array is first resized to port_idx, zero-filling the new slots) when
\* port_idx+1 > length, else a memcpy over the slot.
store_link(links, link, port_idx) ==
    IF u_inc(port_idx) > Len(links)
    THEN links \o [k \in 1..(port_idx - Len(links)) |-> EmptyLink] \o <<link>>
    ELSE [links EXCEPT ![port_idx + 1] = link]

\* port_idx+1 <= length but utarray_eltptr is NULL (port 0: port_idx is
\* UINT_MAX): the memcpy writes through a null pointer.
store_link_faults(links, port_idx) ==
    u_inc(port_idx) <= Len(links) /\ port_idx >= Len(links)

\* The edge of the record: the one found in src_node->edges, or a new one
\* added to it.
find_or_add_edge(edges, id) ==
    IF find_edge(edges, id) = 0
    THEN [edges |-> Append(edges, new_edge(id)), edge |-> Len(edges) + 1]
    ELSE [edges |-> edges, edge |-> find_edge(edges, id)]

\* utils_physical_link_t link[1] as the record fills it.
new_link(gidx, rec, src_node, dest_node, edge) ==
    [int_id |-> gidx,
     ports |-> <<atoi(rec.src_port_id), atoi(rec.dest_port_id)>>,
     width |-> rec.width, speed |-> rec.speed,
     gbits |-> compute_gbits(rec.speed, rec.width),
     dest |-> dest_node, partitions |-> <<>>,
     parent_edge |-> edge, parent_node |-> src_node,
     other_link |-> NullLink]

\* edge->total_gbits += gbits, the store of the link at port_idx and
\* utarray_push_back(&edge->physical_link_idx, &port_idx).
add_link_store(ns, unk, src_node, edges, link, port_idx, faults) ==
    [nodes |->
        [ns EXCEPT
            ![src_node].edges =
                [edges EXCEPT
                    ![link.parent_edge].total_gbits = @ + link.gbits,
                    ![link.parent_edge].physical_link_idx =
                        IF faults THEN @ ELSE Append(@, port_idx)],
            ![src_node].physical_links =
                IF faults THEN @ ELSE store_link(@, link, port_idx)],
     unknown_node_id |-> unk,
     faults |-> faults]

add_link_edge(ns, unk, src_node, dest_node, e, gidx, rec) ==
    add_link_store(ns, unk, src_node, e.edges,
                   new_link(gidx, rec, src_node, dest_node, e.edge),
                   u_dec(atoi(rec.src_port_id)),
                   store_link_faults(ns[src_node].physical_links,
                                     u_dec(atoi(rec.src_port_id))))

add_link_dest(r2, src_node, gidx, rec) ==
    add_link_edge(r2.nodes, r2.unknown_node_id, src_node, r2.node,
                  find_or_add_edge(r2.nodes[src_node].edges,
                                   r2.nodes[r2.node].physical_id),
                  gidx, rec)

add_link_src(r1, gidx, rec) ==
    add_link_dest(get_node(r1.nodes, r1.unknown_node_id, rec.dest_type,
                           rec.dest_lid, rec.dest_guid, rec.dest_desc),
                  r1.node, gidx, rec)

\* The body of the `if (have_peer)` block: the two get_node calls, the edge
\* and the link.  The result is the graph after the record.
add_link(ns, unk, gidx, rec) ==
    add_link_src(get_node(ns, unk, rec.src_type, rec.src_lid, rec.src_guid,
                          rec.src_desc),
                 gidx, rec)

Init ==
    /\ subnet = 1
    /\ pc = "read_discover"
    /\ lines = <<>>
    /\ nodes = <<>>
    /\ unknown_node_id = 0
    /\ global_link_idx = 0
    /\ routes = <<>>
    /\ route = 0
    /\ route_lines = 0
    /\ paths = <<>>
    /\ node_src = 0
    /\ node_dest = 0
    /\ found_links = <<>>
    /\ node_cur = 0
    /\ partitions = <<>>

read_linked_port(r) ==
    /\ nodes' = r.nodes
    /\ unknown_node_id' = r.unknown_node_id
    /\ pc' = IF r.faults THEN "crashed_read_discover" ELSE pc

\* One iteration of read_discover's getline loop on a linked-port line.
ReadLinkedPort(rec) ==
    /\ pc = "read_discover"
    /\ subnet' = subnet
    /\ read_linked_port(add_link(nodes, unknown_node_id, global_link_idx, rec))
    /\ global_link_idx' = global_link_idx + 1
    /\ lines' = Append(lines, rec)
    /\ UNCHANGED <<routes, route, route_lines, paths, node_src, node_dest,
                   found_links, node_cur, partitions>>

\* An iteration on an unlinked-port line that resolves the port's device.
ReadOtherLine_resolving_device(line) ==
    /\ pc = "read_discover"
    /\ subnet' = subnet
    /\ lines' = Append(lines, line)
    /\ nodes' = IF line.kind = "unlinked"
                THEN get_node(nodes, unknown_node_id, line.src_type,
                              line.src_lid, line.src_guid, <<>>).nodes
                ELSE nodes
    /\ UNCHANGED <<pc, unknown_node_id, global_link_idx, routes, route,
                   route_lines, paths, node_src, node_dest, found_links,
                   node_cur, partitions>>

\* One iteration of the getline loop on a line that is no linked-port
\* record: a DR line and a line no regex matches `continue`; an unlinked-port
\* line (have_peer = 0) has its fields extracted and freed, and its gbits
\* computed and dropped.
ReadOtherLine(line) ==
    /\ pc = "read_discover"
    /\ subnet' = subnet
    /\ lines' = Append(lines, line)
    /\ UNCHANGED <<pc, nodes, unknown_node_id, global_link_idx, routes, route,
                   route_lines, paths, node_src, node_dest, found_links,
                   node_cur, partitions>>

(***************************************************************************)
(* read_discover: the pass that finds the link in the other way.           *)
(***************************************************************************)
\* utarray_eltptr(&node->physical_links, j): NULL when j is not an index.
eltptr(ns, node, j) ==
    IF j < Len(ns[node].physical_links) THEN [node |-> node, idx |-> j]
    ELSE NullLink

Deref(ns, ptr) == ns[ptr.node].physical_links[ptr.idx + 1]

find_other_physical_link(ns, link) ==
    eltptr(ns, link.dest, u_dec(link.ports[2]))

find_other_links(ns) ==
    [n \in 1..Len(ns) |->
        LET links == ns[n].physical_links
        IN [ns[n] EXCEPT !.physical_links =
               [i \in 1..Len(links) |->
                   IF links[i].dest = 0 THEN links[i]
                   ELSE [links[i] EXCEPT
                           !.other_link =
                               find_other_physical_link(ns, links[i])]]]]

\* End of the discovery file: the reverse-link pass, and read_discover
\* returns to main(), which looks for the subnet's route directory.
ReadDiscoverEnd ==
    /\ pc = "read_discover"
    /\ subnet' = subnet
    /\ nodes' = find_other_links(nodes)
    /\ pc' = "stat_routes"
    /\ UNCHANGED <<lines, unknown_node_id, global_link_idx, routes, route,
                   route_lines, paths, node_src, node_dest, found_links,
                   node_cur, partitions>>

(***************************************************************************)
(* build_paths.                                                            *)
(***************************************************************************)
IsHost(n) == n.type = "HOST"

new_path(ns, src) == [physical_id |-> ns[src].physical_id, node |-> src,
                      dest |-> <<>>]

\* The two HASH_ITER loops of build_paths, from the pair (src, dest) on: the
\* next pair whose replay starts, and `paths` with the path_source_t of every
\* source host the outer loop enters on the way.  src = 0 in the result: both
\* loops are over.
RECURSIVE next_pair(_, _, _, _)
next_pair(ns, ps, src, dest) ==
    LET dests == {k \in (dest + 1)..Len(ns) : IsHost(ns[k]) /\ k # src}
        srcs == {k \in (src + 1)..Len(ns) :
                    IsHost(ns[k]) /\ Len(ns[k].edges) # 0}
    IN IF src # 0 /\ dests # {}
       THEN [node_src |-> src, node_dest |-> Min(dests), paths |-> ps]
       ELSE IF srcs = {}
       THEN [node_src |-> 0, node_dest |-> 0, paths |-> ps]
       ELSE next_pair(ns, Append(ps, new_path(ns, Min(srcs))), Min(srcs), 0)

\* A first link taken from the lowest port: node_src->physical_links[0].
first_link_of_port_1(ns, src) == eltptr(ns, src, 0)

\* The first link of a pair's replay: the link stored at the first index of
\* the source's first edge (node_src->edges is the head of the edge hash).
first_link(ns, src) ==
    eltptr(ns, src, ns[src].edges[1].physical_link_idx[1])

\* found_links grows by one pointer per iteration, without limit.  A replay
\* that holds more links than there are nodes has entered some node twice and,
\* its next hop being a function of the current node and the destination,
\* never reaches the destination: the model stops recording there.
push_back(found, link, ns) ==
    IF Len(found) <= Len(ns) THEN Append(found, link) ELSE found

\* Go to the pair `np` (a result of next_pair): start its replay with the
\* source's first link, or leave build_paths when the loops are over.
start_replay(np) ==
    /\ paths' = np.paths
    /\ node_src' = np.node_src
    /\ node_dest' = np.node_dest
    /\ IF np.node_src = 0
       THEN /\ pc' = "set_partitions"
            /\ found_links' = <<>>
            /\ node_cur' = 0
       ELSE /\ pc' = "build_paths"
            /\ found_links' = <<first_link(nodes, np.node_src)>>
            /\ node_cur' = Deref(nodes, first_link(nodes, np.node_src)).dest

\* Leave the pair (node_src, node_dest) with `ps` as the paths.
next_replay(ps) == start_replay(next_pair(nodes, ps, node_src, node_dest))

\* A path_dest added to the path_source_t at the head of `paths`.
add_path_dest_to_head(ps, ns, dest, links) ==
    [ps EXCEPT ![1].dest =
        Append(@, [physical_id |-> ns[dest].physical_id, node |-> dest,
                   links |-> links])]

\* HASH_ADD_STR(path->dest, physical_id, path_dest), path being the
\* path_source_t of node_src, the one added last.
add_path_dest(ps, ns, dest, links) ==
    [ps EXCEPT ![Len(ps)].dest =
        Append(@, [physical_id |-> ns[dest].physical_id, node |-> dest,
                   links |-> links])]

\* One evaluation of `while (node_cur != node_dest)` and, when the loop goes
\* on, one iteration of its body; when it ends, the `if (completed)` that
\* follows and the start of the next pair.
build_paths_step ==
    /\ pc = "build_paths"
    /\ subnet' = subnet
    /\ IF node_cur = node_dest
       THEN next_replay(add_path_dest(paths, nodes, node_dest, found_links))
       ELSE IF node_cur = 0
       THEN \* node_cur->physical_id of a null node_cur
            /\ pc' = "crashed_build_paths"
            /\ UNCHANGED <<paths, node_src, node_dest, found_links, node_cur>>
       ELSE LET route_source == HASH_FIND_STR(routes, nodes[node_cur].physical_id)
                route_dest ==
                    IF route_source = 0 THEN 0
                    ELSE HASH_FIND_STR(routes[route_source].dest,
                                       nodes[node_dest].physical_id)
            IN IF route_source = 0 \/ route_dest = 0
               THEN next_replay(paths)
               ELSE LET port == routes[route_source].dest[route_dest].port
                        link == eltptr(nodes, node_cur, u_dec(port))
                    IN /\ found_links' = push_back(found_links, link, nodes)
                       /\ IF link = NullLink
                          THEN \* assert(link), or link->dest of a null link
                               /\ pc' = "crashed_build_paths"
                               /\ node_cur' = node_cur
                          ELSE /\ pc' = pc
                               /\ node_cur' = Deref(nodes, link).dest
                       /\ UNCHANGED <<paths, node_src, node_dest>>
    /\ UNCHANGED <<lines, nodes, unknown_node_id, global_link_idx, routes,
                   route, route_lines, partitions>>

\* main() calls build_paths: the loops run up to the first replay.
enter_build_paths == start_replay(next_pair(nodes, paths, 0, 0))

(***************************************************************************)
(* main(): the route directory, and read_routes.                           *)
(***************************************************************************)
\* stat() finds no route directory: routes stays as it is.
NoRouteDirectory ==
    /\ pc = "stat_routes"
    /\ subnet' = subnet
    /\ enter_build_paths
    /\ UNCHANGED <<lines, nodes, unknown_node_id, global_link_idx, routes,
                   route, route_lines, partitions>>

\* stat() finds the directory: read_routes opens it.
OpenRouteDirectory ==
    /\ pc = "stat_routes"
    /\ subnet' = subnet
    /\ pc' = "read_routes"
    /\ route' = 0
    /\ UNCHANGED <<lines, nodes, unknown_node_id, global_link_idx, routes,
                   route_lines, paths, node_src, node_dest, found_links,
                   node_cur, partitions>>

\* A header line "Unicast lids ... guid 0x<guid> ...:".
ReadRouteHeader(guid) ==
    /\ pc = "read_routes"
    /\ subnet' = subnet
    /\ LET found == HASH_FIND_STR(routes, PhysicalId(guid))
       IN IF found = 0
          THEN /\ routes' = Append(routes, [physical_id |-> PhysicalId(guid),
                                            dest |-> <<>>])
               /\ route' = Len(routes) + 1
          ELSE /\ routes' = routes
               /\ route' = found
    /\ route_lines' = route_lines + 1
    /\ UNCHANGED <<pc, lines, nodes, unknown_node_id, global_link_idx, paths,
                   node_src, node_dest, found_links, node_cur, partitions>>

\* An entry line "0x<lid> <port> : (<type> portguid 0x<guid>:".  With no header
\* read in the file (route is NULL) the file is malformed and the loop over
\* its lines is left.
ReadRouteEntry(port_id, guid) ==
    /\ pc = "read_routes"
    /\ subnet' = subnet
    /\ routes' = IF route = 0 THEN routes
                 ELSE [routes EXCEPT ![route].dest =
                          Append(@, [physical_id |-> PhysicalId(guid),
                                     port |-> atoi(port_id)])]
    /\ route_lines' = route_lines + 1
    /\ UNCHANGED <<pc, lines, nodes, unknown_node_id, global_link_idx, route,
                   paths, node_src, node_dest, found_links, node_cur,
                   partitions>>

\* The end of a route file that is not the last: the next file starts with
\* no current route_source.
NextRouteFile ==
    /\ pc = "read_routes"
    /\ subnet' = subnet
    /\ route # 0
    /\ route' = 0
    /\ UNCHANGED <<pc, lines, nodes, unknown_node_id, global_link_idx, routes,
                   route_lines, paths, node_src, node_dest, found_links,
                   node_cur, partitions>>

\* The last file is read: read_routes returns and main() calls build_paths.
ReadRoutesEnd ==
    /\ pc = "read_routes"
    /\ subnet' = subnet
    /\ enter_build_paths
    /\ route' = 0
    /\ UNCHANGED <<lines, nodes, unknown_node_id, global_link_idx, routes,
                   route_lines, partitions>>

(***************************************************************************)
(* netloc_network_explicit_set_partitions.                                 *)
(***************************************************************************)
proper_partition_name_char(c) == c \in Lower \/ c \in Upper \/ c = "-"

RECURSIVE partition_scan(_, _)
partition_scan(name, i) ==
    IF i < Len(name) /\ proper_partition_name_char(name[i + 1])
    THEN partition_scan(name, i + 1)
    ELSE i

RECURSIVE partition_strip(_, _)
partition_strip(name, i) ==
    IF i > 0 /\ name[i] = "-" THEN partition_strip(name, i - 1) ELSE i

node_find_partition_name(hostname) ==
    SubSeq(hostname, 1, partition_strip(hostname, partition_scan(hostname, 0)))

\* The hosts array of find_partitions: the HOST nodes in hash order.
RECURSIVE hosts_from(_, _)
hosts_from(ns, k) ==
    IF k > Len(ns) THEN <<>>
    ELSE IF IsHost(ns[k]) THEN <<k>> \o hosts_from(ns, k + 1)
    ELSE hosts_from(ns, k + 1)

\* The state of find_partitions' loops: objs[k] is the utils_partition_t
\* allocated for hosts[k]; partition_names[k] is a pointer to one of them (its
\* position in objs, 0: NULL); main[n] is node n's main_partition;
\* num_partitions.  Slot k of the C arrays is position k+1 here.
find_partitions_init(ns, hosts) ==
    [objs |-> [k \in 1..Len(hosts) |->
                 [name |-> node_find_partition_name(ns[hosts[k]].hostname),
                  nodes |-> <<hosts[k]>>]],
     partition_names |-> [k \in 1..Len(hosts) |-> k],
     main |-> [n \in 1..Len(ns) |-> ns[n].main_partition],
     num_partitions |-> 0]

\* An inner loop that merges the member lists and leaves the main_partition of
\* the merged host as it is.
RECURSIVE find_partitions_inner_no_main(_, _, _, _)
find_partitions_inner_no_main(st, hosts, n1, n2) ==
    IF n2 > Len(hosts) THEN st
    ELSE IF st.partition_names[n2] = 0
    THEN find_partitions_inner_no_main(st, hosts, n1, n2 + 1)
    ELSE IF strcmp(st.objs[st.partition_names[n1]].name,
                   st.objs[st.partition_names[n2]].name) = 0
    THEN find_partitions_inner_no_main(
             [st EXCEPT
                !.objs[st.partition_names[n1]].nodes =
                    @ \o st.objs[st.partition_names[n2]].nodes,
                !.partition_names[n2] = 0],
             hosts, n1, n2 + 1)
    ELSE find_partitions_inner_no_main(st, hosts, n1, n2 + 1)

\* for (n2 = n1+1; n2 < num_hosts; n2++)
RECURSIVE find_partitions_inner(_, _, _, _)
find_partitions_inner(st, hosts, n1, n2) ==
    IF n2 > Len(hosts) THEN st
    ELSE IF st.partition_names[n2] = 0
    THEN find_partitions_inner(st, hosts, n1, n2 + 1)
    ELSE IF strcmp(st.objs[st.partition_names[n1]].name,
                   st.objs[st.partition_names[n2]].name) = 0
    THEN find_partitions_inner(
             [st EXCEPT
                !.objs[st.partition_names[n1]].nodes =
                    @ \o st.objs[st.partition_names[n2]].nodes,
                !.partition_names[n2] = 0,
                !.main[hosts[n2]] = st.num_partitions],
             hosts, n1, n2 + 1)
    ELSE find_partitions_inner(st, hosts, n1, n2 + 1)

\* for (n1 = 0; n1 < num_hosts; n1++)
RECURSIVE find_partitions_outer(_, _, _)
find_partitions_outer(st, hosts, n1) ==
    IF n1 > Len(hosts) THEN st
    ELSE IF st.partition_names[n1] = 0
    THEN find_partitions_outer(st, hosts, n1 + 1)
    ELSE LET kept == [st EXCEPT
                        !.partition_names[st.num_partitions + 1] =
                            st.partition_names[n1],
                        !.main[hosts[n1]] = st.num_partitions]
             merged == find_partitions_inner(kept, hosts, n1, n1 + 1)
         IN find_partitions_outer(
                [merged EXCEPT !.num_partitions = @ + 1], hosts, n1 + 1)

\* netloc_network_explicit_find_partitions: the nodes with their
\* main_partition, and the partitions array.
find_partitions(ns) ==
    LET hosts == hosts_from(ns, 1)
        st == find_partitions_outer(find_partitions_init(ns, hosts), hosts, 1)
    IN [nodes |-> [n \in 1..Len(ns) |->
                      [ns[n] EXCEPT !.main_partition = st.main[n]]],
        partitions |-> [p \in 1..st.num_partitions |->
                           st.objs[st.partition_names[p]]]]

\* calloc(count, sizeof(int)) with element i set to 1 (i = -1: none).
calloc_with(count, i) == [p \in 1..count |-> IF p = i + 1 THEN 1 ELSE 0]

\* The first loop of set_partitions: every node's and edge's partitions array.
alloc_partitions(ns, count) ==
    [n \in 1..Len(ns) |->
        [ns[n] EXCEPT
            !.partitions = calloc_with(count, ns[n].main_partition),
            !.edges = [e \in 1..Len(@) |->
                          [@[e] EXCEPT !.partitions = calloc_with(count, -1)]]]]

\* link->partitions[partition] = 1 (allocated on first use), and the same for
\* link->parent_node and link->parent_edge.
mark_link(ns, ptr, partition, count) ==
    LET link == Deref(ns, ptr)
        marked == [ns EXCEPT
                     ![ptr.node].physical_links[ptr.idx + 1].partitions =
                         [(IF @ = <<>> THEN calloc_with(count, -1) ELSE @)
                             EXCEPT ![partition + 1] = 1]]
    IN [marked EXCEPT
          ![link.parent_node].partitions[partition + 1] = 1,
          ![link.parent_node].edges[link.parent_edge].partitions[partition + 1] = 1]

\* The pairs visited when the test of the destination's main partition is
\* left out.
RECURSIVE path_marks_of_all_paths(_, _, _, _)
path_marks_of_all_paths(ns, ps, s, d) ==
    IF s > Len(ps) THEN <<>>
    ELSE IF d > Len(ps[s].dest) THEN path_marks_of_all_paths(ns, ps, s + 1, 1)
    ELSE [l \in 1..Len(ps[s].dest[d].links) |->
             [link |-> ps[s].dest[d].links[l],
              partition |-> ns[ps[s].node].main_partition]]
         \o path_marks_of_all_paths(ns, ps, s, d + 1)

\* The (link, partition) pairs the second loop of set_partitions visits, in
\* the order it visits them.
RECURSIVE path_marks(_, _, _, _)
path_marks(ns, ps, s, d) ==
    IF s > Len(ps) THEN <<>>
    ELSE IF d > Len(ps[s].dest) THEN path_marks(ns, ps, s + 1, 1)
    ELSE LET partition == ns[ps[s].node].main_partition
             dest == ps[s].dest[d]
         IN (IF ns[dest.node].main_partition # partition THEN <<>>
             ELSE [l \in 1..Len(dest.links) |->
                      [link |-> dest.links[l], partition |-> partition]])
            \o path_marks(ns, ps, s, d + 1)

\* A loop body that marks the links of the path and not their reverse links.
RECURSIVE set_link_partitions_one_way(_, _, _, _)
set_link_partitions_one_way(ns, marks, k, count) ==
    IF k > Len(marks) THEN [nodes |-> ns, faults |-> FALSE]
    ELSE set_link_partitions_one_way(
             mark_link(ns, marks[k].link, marks[k].partition, count), marks,
             k + 1, count)

\* The body of the loop over a path's links, for marks[k] onwards.  The
\* reverse link of a link is marked through link->other_link; one that points
\* to a zero-filled slot has a null parent_node, which is dereferenced.
RECURSIVE set_link_partitions(_, _, _, _)
set_link_partitions(ns, marks, k, count) ==
    IF k > Len(marks) THEN [nodes |-> ns, faults |-> FALSE]
    ELSE LET m == marks[k]
             n1 == mark_link(ns, m.link, m.partition, count)
             other == Deref(n1, m.link).other_link
         IN IF other = NullLink
            THEN set_link_partitions(n1, marks, k + 1, count)
            ELSE IF Deref(n1, other).parent_node = 0
            THEN [nodes |-> n1, faults |-> TRUE]
            ELSE set_link_partitions(
                     mark_link(n1, other, m.partition, count), marks, k + 1,
                     count)

\* set_partitions after find_partitions has returned `found`.
set_partitions_marks(found, ps) ==
    [partitions |-> found.partitions,
     marked |-> set_link_partitions(
                    alloc_partitions(found.nodes, Len(found.partitions)),
                    path_marks(found.nodes, ps, 1, 1), 1,
                    Len(found.partitions))]

set_partitions_result(r) ==
    /\ nodes' = r.marked.nodes
    /\ partitions' = r.partitions
    /\ pc' = IF r.marked.faults THEN "crashed_set_partitions" ELSE "done"

\* main() calls netloc_network_explicit_set_partitions.
SetPartitions ==
    /\ pc = "set_partitions"
    /\ subnet' = subnet
    /\ set_partitions_result(set_partitions_marks(find_partitions(nodes), paths))
    /\ UNCHANGED <<lines, unknown_node_id, global_link_idx, routes, route,
                   route_lines, paths, node_src, node_dest, found_links,
                   node_cur>>

(***************************************************************************)
(* main(): the end of a subnet's processing and the next subnet file.      *)
(***************************************************************************)
\* The model is written out, the node hash, the partitions, the routes and
\* the paths are emptied, and the loop over the directory comes to the next
\* subnet file: read_discover starts with its own global_link_idx, get_node
\* with the unknown_node_id it has.
NextSubnet ==
    /\ pc = "done"
    /\ subnet' = subnet + 1
    /\ pc' = "read_discover"
    /\ lines' = <<>>
    /\ nodes' = <<>>
    /\ partitions' = <<>>
    /\ routes' = <<>>
    /\ paths' = <<>>
    /\ global_link_idx' = 0
    /\ route_lines' = 0
    /\ UNCHANGED <<unknown_node_id, route, node_src, node_dest, found_links,
                   node_cur>>

(***************************************************************************)
(* Inputs.  A discovery file is a sequence of linked-port records, a route  *)
(* directory a sequence of header and entry lines; each specification      *)
(* draws them from one family of lines.                                    *)
(***************************************************************************)
GuidA == <<"0002", "c903", "0000", "000a">>

GuidB == <<"0002", "c903", "0000", "000b">>

GuidC == <<"0002", "c903", "0000", "000c">>

GuidD == <<"0002", "c903", "0000", "000d">>

GuidE == <<"0002", "c903", "0000", "000e">>

\* What the discovery file says of a device wherever it names it, in the
\* families that do not vary it: A, C and E are channel adapters "a-1 h",
\* "a-2 h" and "" (no description), D is a channel adapter "'b1", B a switch.
TypeOf(guid) == IF guid = GuidB THEN "SW" ELSE "CA"

LidOf(guid) ==
    CASE guid = GuidA -> <<"3">>
      [] guid = GuidB -> <<"1">>
      [] guid = GuidC -> <<"4">>
      [] guid = GuidD -> <<"1", "2">>
      [] OTHER -> <<"7">>

DescOf(guid) ==
    CASE guid = GuidA -> <<"a", "-", "1", " ", "h">>
      [] guid = GuidB -> <<"s", "w">>
      [] guid = GuidC -> <<"a", "-", "2", " ", "h">>
      [] guid = GuidD -> <<"'", "b", "1">>
      [] OTHER -> <<>>

Record(src_guid, src_port_id, dest_guid, dest_port_id, width, speed) ==
    [src_type |-> TypeOf(src_guid), src_lid |-> LidOf(src_guid),
     src_port_id |-> src_port_id, src_guid |-> src_guid,
     width |-> width, speed |-> speed,
     dest_type |-> TypeOf(dest_guid), dest_lid |-> LidOf(dest_guid),
     dest_port_id |-> dest_port_id, dest_guid |-> dest_guid,
     src_desc |-> DescOf(src_guid), dest_desc |-> DescOf(dest_guid)]

\* Two devices, three source ports, two destination ports, two speeds.
PortRecords ==
    {Record(sg, sp, dg, dp, <<"4", "x">>, speed) :
        sg \in {GuidA, GuidB}, sp \in {<<"1">>, <<"2">>, <<"3">>},
        dg \in {GuidA, GuidB}, dp \in {<<"1">>, <<"2">>},
        speed \in {"SDR", "QDR"}}

\* One cable, every speed code of the table and one that is not in it, three
\* widths.
GbitsRecords ==
    {Record(GuidA, <<"1">>, GuidB, <<"1">>, width, speed) :
        width \in {<<"1", "x">>, <<"4", "x">>, <<"1", "2", "x">>},
        speed \in {"SDR", "DDR", "QDR", "FDR", "FDR10", "EDR", "HDR"}}

\* Two devices, each named with any of three (type, lid, description).
NodeVariants ==
    {[type |-> "CA", lid |-> <<"3">>, desc |-> <<"'", "a", "-", "1", " ", "h">>],
     [type |-> "SW", lid |-> <<"1", "2">>, desc |-> <<"s", "w">>],
     [type |-> "CA", lid |-> <<"5">>, desc |-> <<>>]}

NodeRecords ==
    {[src_type |-> sv.type, src_lid |-> sv.lid, src_port_id |-> <<"1">>,
      src_guid |-> sg, width |-> <<"4", "x">>, speed |-> "QDR",
      dest_type |-> dv.type, dest_lid |-> dv.lid, dest_port_id |-> <<"1">>,
      dest_guid |-> dg, src_desc |-> sv.desc, dest_desc |-> dv.desc] :
        sg \in {GuidA, GuidB}, dg \in {GuidA, GuidB},
        sv \in NodeVariants, dv \in NodeVariants}

\* The cables of a fabric of two hosts A and C and a switch B, with a direct
\* cable from A to C, and port 1 of A named twice.
FabricCables ==
    {<<GuidA, <<"1">>, GuidB, <<"1">>>>, <<GuidB, <<"1">>, GuidA, <<"1">>>>,
     <<GuidB, <<"2">>, GuidC, <<"1">>>>, <<GuidC, <<"1">>, GuidB, <<"2">>>>,
     <<GuidA, <<"1">>, GuidC, <<"1">>>>, <<GuidA, <<"2">>, GuidC, <<"1">>>>}

FabricRecords ==
    {Record(c[1], c[2], c[3], c[4], <<"4", "x">>, "QDR") : c \in FabricCables}

FabricRouteHeaders == {GuidA, GuidB}

FabricRouteEntries ==
    {<<(<<"1">>), GuidC>>, <<(<<"2">>), GuidC>>, <<(<<"1">>), GuidA>>}

\* A fabric whose routing tables can send the traffic for C from A to B and
\* from B back to A: A has a table although it is a host.
LoopCables ==
    {<<GuidA, <<"1">>, GuidB, <<"1">>>>, <<GuidB, <<"1">>, GuidA, <<"1">>>>,
     <<GuidA, <<"2">>, GuidC, <<"1">>>>}

LoopRecords ==
    {Record(c[1], c[2], c[3], c[4], <<"4", "x">>, "QDR") : c \in LoopCables}

LoopRouteHeaders == {GuidA, GuidB}

LoopRouteEntries == {<<(<<"1">>), GuidC>>, <<(<<"2">>), GuidC>>}

\* Two hosts, the second with an empty description, cabled in any way
\* through their port 1.
AnonymousRecords ==
    {Record(sg, <<"1">>, dg, <<"1">>, <<"4", "x">>, "QDR") :
        sg \in {GuidA, GuidE}, dg \in {GuidA, GuidE}}

\* Lines that are no linked-port records: a DR line, a line that no regex
\* matches, and unlinked ports of a device that has links and of one that
\* has none.
OtherLines ==
    {[kind |-> "DR"], [kind |-> "unrecognized"],
     [kind |-> "unlinked", src_type |-> "CA", src_lid |-> LidOf(GuidA),
      src_port_id |-> <<"2">>, src_guid |-> GuidA],
     [kind |-> "unlinked", src_type |-> "CA", src_lid |-> LidOf(GuidD),
      src_port_id |-> <<"1">>, src_guid |-> GuidD]}

\* Five devices cabled in any way through their port 1.
HostRecords ==
    {Record(sg, <<"1">>, dg, <<"1">>, <<"4", "x">>, "QDR") :
        sg \in {GuidA, GuidB, GuidC, GuidD, GuidE},
        dg \in {GuidA, GuidB, GuidC, GuidD, GuidE}}

(***************************************************************************)
(* Specifications.                                                         *)
(***************************************************************************)
\* read_discover on a file of PortRecords.
Next ==
    \/ \E rec \in PortRecords : Len(lines) < MaxRecords /\ ReadLinkedPort(rec)
    \/ ReadDiscoverEnd

Spec == Init /\ [][Next]_vars

\* read_discover on a file of GbitsRecords.
NextGbits ==
    \/ \E rec \in GbitsRecords : Len(lines) < MaxRecords /\ ReadLinkedPort(rec)
    \/ ReadDiscoverEnd

SpecGbits == Init /\ [][NextGbits]_vars

\* read_discover on a file of NodeRecords.
NextNodes ==
    \/ \E rec \in NodeRecords : Len(lines) < MaxRecords /\ ReadLinkedPort(rec)
    \/ ReadDiscoverEnd

SpecNodes == Init /\ [][NextNodes]_vars

\* main() on a subnet whose discovery file holds FabricRecords, with or
\* without a route directory.
NextPaths ==
    \/ \E rec \in FabricRecords : Len(lines) < MaxCables /\ ReadLinkedPort(rec)
    \/ ReadDiscoverEnd
    \/ NoRouteDirectory
    \/ OpenRouteDirectory
    \/ \E guid \in FabricRouteHeaders :
          route_lines < MaxRouteLines /\ ReadRouteHeader(guid)
    \/ \E e \in FabricRouteEntries :
          route_lines < MaxRouteLines /\ ReadRouteEntry(e[1], e[2])
    \/ NextRouteFile
    \/ ReadRoutesEnd
    \/ build_paths_step
    \/ SetPartitions

PathSpec == Init /\ [][NextPaths]_vars

\* main() on a subnet whose discovery file holds LoopRecords and whose route
\* directory holds LoopRouteHeaders and LoopRouteEntries.
NextLoop ==
    \/ \E rec \in LoopRecords :
          Len(lines) < MaxLoopRecords /\ ReadLinkedPort(rec)
    \/ ReadDiscoverEnd
    \/ OpenRouteDirectory
    \/ \E guid \in LoopRouteHeaders :
          route_lines < MaxLoopRouteLines /\ ReadRouteHeader(guid)
    \/ \E e \in LoopRouteEntries :
          route_lines < MaxLoopRouteLines /\ ReadRouteEntry(e[1], e[2])
    \/ ReadRoutesEnd
    \/ build_paths_step
    \/ SetPartitions

LoopSpec == Init /\ [][NextLoop]_vars

\* The same, the loops of build_paths running on: nothing but the program
\* stops an iteration that can be taken.
LiveSpec == LoopSpec /\ WF_vars(build_paths_step)

\* main() on a subnet whose discovery file holds HostRecords and that has no
\* route directory.
NextHosts ==
    \/ \E rec \in HostRecords : Len(lines) < MaxRecords /\ ReadLinkedPort(rec)
    \/ ReadDiscoverEnd
    \/ NoRouteDirectory
    \/ build_paths_step
    \/ SetPartitions

PartSpec == Init /\ [][NextHosts]_vars

\* read_discover on a file of AnonymousRecords and OtherLines.
NextLines ==
    \/ \E rec \in AnonymousRecords :
          Len(lines) < MaxLines /\ ReadLinkedPort(rec)
    \/ \E line \in OtherLines : Len(lines) < MaxLines /\ ReadOtherLine(line)
    \/ ReadDiscoverEnd

LineSpec == Init /\ [][NextLines]_vars

\* main() on a directory of subnets whose discovery files hold
\* AnonymousRecords and that have no route directory.
NextSubnets ==
    \/ \E rec \in AnonymousRecords :
          Len(lines) < MaxRecords /\ ReadLinkedPort(rec)
    \/ ReadDiscoverEnd
    \/ NoRouteDirectory
    \/ build_paths_step
    \/ SetPartitions
    \/ subnet < MaxSubnets /\ NextSubnet

SubnetSpec == Init /\ [][NextSubnets]_vars

(***************************************************************************)
(* Properties.                                                             *)
(***************************************************************************)
Last(s) == s[Len(s)]

Max(S) == CHOOSE x \in S : \A y \in S : y <= x

\* The node of a canonical identifier, 0 when there is none.
NodeOf(id) == HASH_FIND_STR(nodes, id)

\* The source ports the records read so far name for the node n.
SeenPorts(n) ==
    {atoi(lines[k].src_port_id) : k \in
        {k \in 1..Len(lines) :
            PhysicalId(lines[k].src_guid) = nodes[n].physical_id}}

\* The last record read that names source port p of node n.
LastRecord(n, p) ==
    lines[Max({k \in 1..Len(lines) :
                  /\ PhysicalId(lines[k].src_guid) = nodes[n].physical_id
                  /\ atoi(lines[k].src_port_id) = p})]

IdentityOf(node) ==
    <<node.physical_id, node.type, node.logical_id, node.description,
      node.hostname>>

\* C4, first half: the node set holds at most one Node per canonical
\* identifier.
C4_OneNodePerIdentifier ==
    \A i, j \in 1..Len(nodes) :
        nodes[i].physical_id = nodes[j].physical_id => i = j

\* C4, second half, for one step: a node that exists keeps its place, its
\* identifier, type, logical identifier, description and hostname whatever
\* the record that names it again says, and keeps its edges and links unless
\* it is the source of the record read, which gains the record's link.
C4_NodeKept(k) ==
    /\ k <= Len(nodes')
    /\ IdentityOf(nodes'[k]) = IdentityOf(nodes[k])
    /\ (lines' # lines
        /\ PhysicalId(Last(lines').src_guid) # nodes[k].physical_id)
       => /\ nodes'[k].edges = nodes[k].edges
          /\ nodes'[k].physical_links = nodes[k].physical_links

\* C4: after any sequence of linked-port records the node set holds at most
\* one Node per canonical identifier, and a later resolution of an identifier
\* by get_node leaves the existing Node's type, logical identifier,
\* description, hostname, edges and links as they are.
C4_GetNodeReusesNode ==
    /\ []C4_OneNodePerIdentifier
    /\ [][\A k \in 1..Len(nodes) : C4_NodeKept(k)]_vars

\* C4's case: two records name one device as their source, with different
\* type, lid and description, and the node set holds that device once.
C4_Witness ==
    /\ Len(lines) = 2
    /\ lines[1].src_guid = lines[2].src_guid
    /\ lines[1].src_type # lines[2].src_type
    /\ lines[1].src_lid # lines[2].src_lid
    /\ lines[1].src_desc # lines[2].src_desc
    /\ nodes[1].description = lines[1].src_desc
    /\ \A k \in 2..Len(nodes) : nodes[k].physical_id # nodes[1].physical_id

\* The links of node n that are not empty slots, as indices.
StoredLinks(n) ==
    {i \in 1..Len(nodes[n].physical_links) :
        nodes[n].physical_links[i].dest # 0}

\* C8, for one node: a link is stored at the index of its source port less
\* one, owned by the node and leading where the last record of that port
\* said; the collection is as long as the highest source port seen; a slot
\* no record named is empty.
C8_PortIndexed(n) ==
    /\ Len(nodes[n].physical_links) = Max(SeenPorts(n) \cup {0})
    /\ StoredLinks(n) = SeenPorts(n)
    /\ \A i \in StoredLinks(n) :
          /\ nodes[n].physical_links[i].ports[1] = i
          /\ nodes[n].physical_links[i].parent_node = n
          /\ nodes[nodes[n].physical_links[i].dest].physical_id =
                PhysicalId(LastRecord(n, i).dest_guid)
    /\ \A i \in 1..Len(nodes[n].physical_links) :
          i \notin SeenPorts(n) => nodes[n].physical_links[i] = EmptyLink

\* C8: after any sequence of linked-port records, in any order of source
\* ports, every Physical Link with source port p owned by node N is stored at
\* index p-1 of N's port-indexed collection with N as its owning node, the
\* collection's length is the highest source port seen for N, and every
\* index for which no record was seen holds an empty slot.
C8_LinksIndexedByPort == \A n \in 1..Len(nodes) : C8_PortIndexed(n)

\* C8's case: a node whose port 3 was recorded before its port 1, and whose
\* port 2 was never recorded.
C8_Witness ==
    \E n \in 1..Len(nodes) :
        /\ Len(nodes[n].physical_links) = 3
        /\ nodes[n].physical_links[2] = EmptyLink
        /\ nodes[n].physical_links[1].dest # 0
        /\ nodes[n].physical_links[3].dest # 0
        /\ nodes[n].physical_links[3].int_id < nodes[n].physical_links[1].int_id

\* The number of positions of the sequence s that hold x.
Count(s, x) == Cardinality({k \in 1..Len(s) : s[k] = x})

\* C5, for a record read more than once, src being its source node: one Edge
\* to the destination, one Physical Link for the source port, and the index
\* of that link once in the Edge's physical_link_idx.
C5_RecordedOnce(rec, src) ==
    /\ Cardinality({e \in 1..Len(nodes[src].edges) :
                      nodes[src].edges[e].dest = PhysicalId(rec.dest_guid)}) = 1
    /\ Cardinality({i \in StoredLinks(src) :
                      nodes[src].physical_links[i].ports[1] =
                          atoi(rec.src_port_id)}) = 1
    /\ Count(nodes[src].edges[find_edge(nodes[src].edges,
                                        PhysicalId(rec.dest_guid))]
                .physical_link_idx,
             atoi(rec.src_port_id) - 1) = 1

\* C5: ingesting the same linked-port record twice yields one Node per
\* canonical identifier and no duplicated edges or links: the source node has
\* one Edge to the destination, one Physical Link for that source port, and
\* the Edge's physical-link indices contain that link's index once.
C5_SameRecordTwice ==
    (Len(lines) = 2 /\ lines[1] = lines[2])
    => /\ C4_OneNodePerIdentifier
       /\ C5_RecordedOnce(lines[1], NodeOf(PhysicalId(lines[1].src_guid)))

\* The sum of the bandwidths of the links stored at the indices I of node n.
RECURSIVE SumGbits(_, _)
SumGbits(n, I) ==
    IF I = {} THEN 0
    ELSE nodes[n].physical_links[Max(I)].gbits + SumGbits(n, I \ {Max(I)})

\* The links node n stores that belong to its edge e.
LinksOfEdge(n, e) ==
    {i \in StoredLinks(n) : nodes[n].physical_links[i].parent_edge = e}

\* C6: after every ingested record, each source node has at most one Edge
\* per destination node, and every Edge's aggregate bandwidth is the sum of
\* the bandwidths of the physical links now stored in the source node's port
\* collection that belong to that Edge, also when a later record reuses a
\* source port already recorded.
C6_EdgeBandwidthIsSum ==
    \A n \in 1..Len(nodes) :
        \A e \in 1..Len(nodes[n].edges) :
            /\ \A f \in 1..Len(nodes[n].edges) :
                  nodes[n].edges[f].dest = nodes[n].edges[e].dest => f = e
            /\ nodes[n].edges[e].total_gbits = SumGbits(n, LinksOfEdge(n, e))

\* The bandwidth of one lane the lookup table states for a speed code, in
\* 1/33 Gbit/s: rate x efficiency, rates 2.5, 5, 10, 14.0625, 10, 25,
\* efficiency 8/10 for SDR, DDR, QDR and 64/66 for FDR, FDR10, EDR; 0 for a
\* code that is not in the table.
LaneGbits(speed) ==
    CASE speed = "SDR" -> 66
      [] speed = "DDR" -> 132
      [] speed = "QDR" -> 264
      [] speed = "FDR" -> 450
      [] speed = "FDR10" -> 320
      [] speed = "EDR" -> 800
      [] OTHER -> 0

\* C7, for one stored link.
C7_TableValue(link) ==
    link.gbits = IF LaneGbits(link.speed) = 0 THEN 33
                 ELSE LaneGbits(link.speed) * atoi(link.width)

\* C7: compute_gbits returns, for every speed code of the lookup table and
\* every lane count, rate(speed) x efficiency(speed) x lanes (QDR at 4x gives
\* 32.0 Gbit/s), and the sentinel 1 for every speed code not in the table.
C7_GbitsFollowTable ==
    \A n \in 1..Len(nodes) :
        \A i \in StoredLinks(n) : C7_TableValue(nodes[n].physical_links[i])

\* C9, for the link L1 stored at index i of node n: a resolved other link L2
\* leads to L1's owner, is owned by L1's destination and has L1 as its other
\* link; and L1 has no other link when its destination holds no link at the
\* recorded destination port that leads back to L1's owner.
C9_Symmetric(n, i) ==
    /\ nodes[n].physical_links[i].other_link # NullLink
       => /\ Deref(nodes, nodes[n].physical_links[i].other_link).dest = n
          /\ Deref(nodes, nodes[n].physical_links[i].other_link).parent_node =
                nodes[n].physical_links[i].dest
          /\ Deref(nodes, nodes[n].physical_links[i].other_link).other_link =
                [node |-> n, idx |-> i - 1]
    /\ ~(\E j \in StoredLinks(nodes[n].physical_links[i].dest) :
            /\ j = nodes[n].physical_links[i].ports[2]
            /\ nodes[nodes[n].physical_links[i].dest].physical_links[j].dest = n)
       => nodes[n].physical_links[i].other_link = NullLink

\* C9: after the post-pass of read_discover, for any set of discovery records,
\* every Physical Link L1 whose other link L2 is resolved satisfies L2.dest =
\* L1's owning node, L1.dest = L2's owning node and L2's other link = L1; when
\* the destination node holds no link at the recorded destination port that
\* points back to L1's owner, L1 has no other link.
C9_OtherLinkSymmetric ==
    pc = "stat_routes"
    => \A n \in 1..Len(nodes) : \A i \in StoredLinks(n) : C9_Symmetric(n, i)

\* The HOST nodes, as indices.
Hosts == {n \in 1..Len(nodes) : IsHost(nodes[n])}

\* The pairs build_paths replays: distinct hosts, the source with an edge.
HostPairs ==
    {sd \in Hosts \X Hosts : sd[1] # sd[2] /\ Len(nodes[sd[1]].edges) # 0}

\* build_paths has ended the replay of the pair (src, dst): it has returned,
\* or its loops, which go through the nodes in hash order, are past the pair.
Replayed(src, dst) ==
    \/ pc \in {"set_partitions", "done", "crashed_set_partitions"}
    \/ /\ pc \in {"build_paths", "crashed_build_paths"}
       /\ src < node_src \/ (src = node_src /\ dst < node_dest)

\* The places of `paths` that hold a path of the pair (src, dst).
RecordedAt(src, dst) ==
    {p \in (1..Len(paths)) \X (1..Len(nodes)) :
        /\ paths[p[1]].node = src
        /\ p[2] <= Len(paths[p[1]].dest)
        /\ paths[p[1]].dest[p[2]].node = dst}

\* The hop-by-hop replay towards dst, from the node cur that the links taken
\* so far lead to: at a node other than dst, the link stored at index port-1,
\* port being the entry for dst of that node's routing table; incomplete when
\* the node has no table or the table no entry.  A replay of more hops than
\* there are nodes has come back to a node and does not reach dst.
RECURSIVE Replay(_, _, _, _)
Replay(cur, dst, links, fuel) ==
    IF cur = dst THEN [reached |-> TRUE, links |-> links]
    ELSE IF fuel = 0 \/ cur = 0
            \/ HASH_FIND_STR(routes, nodes[cur].physical_id) = 0
    THEN [reached |-> FALSE, links |-> links]
    ELSE LET table == routes[HASH_FIND_STR(routes, nodes[cur].physical_id)].dest
             entry == HASH_FIND_STR(table, nodes[dst].physical_id)
         IN IF entry = 0 \/ eltptr(nodes, cur, u_dec(table[entry].port)) = NullLink
            THEN [reached |-> FALSE, links |-> links]
            ELSE Replay(Deref(nodes, eltptr(nodes, cur,
                                            u_dec(table[entry].port))).dest,
                        dst,
                        Append(links, eltptr(nodes, cur,
                                             u_dec(table[entry].port))),
                        fuel - 1)

\* What `paths` holds for the pair (src, dst) is what the replay r says: one
\* path with the links taken when build_paths has ended the pair's replay and
\* the replay reaches dst, and no path otherwise.
PathAsReplayed(src, dst, r) ==
    /\ Cardinality(RecordedAt(src, dst)) =
          IF Replayed(src, dst) /\ r.reached THEN 1 ELSE 0
    /\ \A p \in RecordedAt(src, dst) :
          paths[p[1]].dest[p[2]].links = r.links

\* The link stored at the first index of the first edge of src.
FirstIndexOfFirstEdge(src) ==
    [node |-> src, idx |-> nodes[src].edges[1].physical_link_idx[1]]

FirstRecord(src) ==
    lines[Min({k \in 1..Len(lines) :
                  PhysicalId(lines[k].src_guid) = nodes[src].physical_id})]

Visited(src, links) ==
    <<src>> \o [k \in 1..Len(links) |-> Deref(nodes, links[k]).dest]

\* C2, for the path from src to dst with the given links.
C2_Simple(src, dst, links) ==
    /\ links[1].node = src
    /\ Deref(nodes, links[Len(links)]).dest = dst
    /\ \A i, j \in 1..(Len(links) + 1) :
          Visited(src, links)[i] = Visited(src, links)[j] => i = j
    /\ Len(links) <= Len(nodes)

\* C2: every Path recorded by build_paths has a link sequence that starts at
\* a link owned by the path's source host, ends at a link whose destination
\* is the path's destination host, visits no node twice, and has no more
\* links than there are nodes in the subnet.
C2_PathsAreSimple ==
    \A s \in 1..Len(paths) :
        \A d \in 1..Len(paths[s].dest) :
            C2_Simple(paths[s].node, paths[s].dest[d].node,
                      paths[s].dest[d].links)

\* C3: the replay loop of build_paths stops for each host pair and
\* build_paths returns, whatever the graph and the routing tables.  (A run
\* that dies in build_paths is counted as stopped here: what is left is the
\* run that stays in the loop.)
C3_BuildPathsReturns ==
    (pc = "build_paths")
        ~> (pc \in {"set_partitions", "done", "crashed_build_paths",
                    "crashed_set_partitions"})

\* The partitions whose member list holds the node n, one for every
\* appearance.
MemberOf(n) ==
    {pk \in (1..Len(partitions)) \X (1..Len(nodes)) :
        /\ pk[2] <= Len(partitions[pk[1]].nodes)
        /\ partitions[pk[1]].nodes[pk[2]] = n}

\* The candidate partition name of the host n.
Candidate(n) == node_find_partition_name(nodes[n].hostname)

\* C10: after partition detection every HOST node has one main-partition
\* index in 0..(number of partitions - 1), every other node keeps main
\* partition -1, two hosts have the same index exactly when their candidate
\* partition names are equal, the number of partitions is the number of
\* distinct candidate names, and each host appears once in the member list of
\* the partition at its index and in no other member list.
C10_HostsGroupedByName ==
    pc \in {"done", "crashed_set_partitions"}
    => /\ \A n \in Hosts : nodes[n].main_partition \in 0..(Len(partitions) - 1)
       /\ \A n \in (1..Len(nodes)) \ Hosts : nodes[n].main_partition = -1
       /\ \A a, b \in Hosts :
             (nodes[a].main_partition = nodes[b].main_partition)
                 <=> (Candidate(a) = Candidate(b))
       /\ Len(partitions) = Cardinality({Candidate(n) : n \in Hosts})
       /\ \A n \in Hosts :
             /\ Cardinality(MemberOf(n)) = 1
             /\ \A pk \in MemberOf(n) : pk[1] = nodes[n].main_partition + 1
       /\ \A n \in (1..Len(nodes)) \ Hosts : MemberOf(n) = {}

\* C10's case: three hosts in two partitions, the two hosts of one name with
\* the host of the other name between them.
C10_Witness ==
    /\ pc = "done"
    /\ Len(partitions) = 2
    /\ \E a, b, c \in Hosts :
          /\ a < b /\ b < c
          /\ Candidate(a) = Candidate(c)
          /\ Candidate(a) # Candidate(b)

\* The places of `paths` that hold a path between two hosts of main
\* partition P.
PathsIn(P) ==
    {p \in (1..Len(paths)) \X (1..Len(nodes)) :
        /\ p[2] <= Len(paths[p[1]].dest)
        /\ nodes[paths[p[1]].node].main_partition = P
        /\ nodes[paths[p[1]].dest[p[2]].node].main_partition = P}

\* The links of those paths.
Carrying(P) == UNION {Range(paths[p[1]].dest[p[2]].links) : p \in PathsIn(P)}

\* The links of those paths and their resolved other links.
CarryingOrReverse(P) ==
    Carrying(P) \cup
    ({Deref(nodes, l).other_link : l \in Carrying(P)} \ {NullLink})

\* The link at ptr, its owning edge and its owning node are marked with P.
MarkedWith(ptr, P) ==
    /\ Deref(nodes, ptr).partitions # <<>>
    /\ Deref(nodes, ptr).partitions[P + 1] = 1
    /\ nodes[Deref(nodes, ptr).parent_node].partitions[P + 1] = 1
    /\ nodes[Deref(nodes, ptr).parent_node]
          .edges[Deref(nodes, ptr).parent_edge].partitions[P + 1] = 1

\* C11: after netloc_network_explicit_set_partitions, for every recorded
\* Path whose source and destination hosts have the same main partition P,
\* every Physical Link of the path, its owning Edge and its owning Node are
\* marked as belonging to P, and so are the resolved other link of every such
\* link, its owning Edge and its owning Node.
C11_PathsMarkTheirPartition ==
    pc = "done"
    => \A P \in 0..(Len(partitions) - 1) :
           \A l \in CarryingOrReverse(P) : MarkedWith(l, P)

\* C11's case: a path of two links between two hosts of one partition, one
\* of the links with a resolved other link.
C11_Witness ==
    /\ pc = "done"
    /\ \E p \in PathsIn(0) :
          /\ Len(paths[p[1]].dest[p[2]].links) = 2
          /\ \E k \in 1..2 :
                Deref(nodes, paths[p[1]].dest[p[2]].links[k]).other_link
                    # NullLink

\* The links, edges and nodes marked with P.
MarkedLinks(P) ==
    {l \in UNION {{[node |-> n, idx |-> i - 1] :
                      i \in 1..Len(nodes[n].physical_links)} :
                  n \in 1..Len(nodes)} :
        /\ Deref(nodes, l).partitions # <<>>
        /\ Deref(nodes, l).partitions[P + 1] = 1}

MarkedEdges(P) ==
    {ne \in (1..Len(nodes)) \X (1..Len(nodes)) :
        /\ ne[2] <= Len(nodes[ne[1]].edges)
        /\ nodes[ne[1]].edges[ne[2]].partitions[P + 1] = 1}

MarkedNodes(P) == {n \in 1..Len(nodes) : nodes[n].partitions[P + 1] = 1}

\* The links and edges marked with P carry a path between two hosts of P or
\* are the reverse of a link that does.
C12_LinksAndEdgesCarry(P) ==
    /\ MarkedLinks(P) \subseteq CarryingOrReverse(P)
    /\ MarkedEdges(P) \subseteq
          {<<Deref(nodes, l).parent_node, Deref(nodes, l).parent_edge>> :
              l \in CarryingOrReverse(P)}

\* C12, with the hosts as the code marks them: after
\* netloc_network_explicit_set_partitions every link and edge marked with P
\* lies on a recorded Path between two hosts of main partition P or is the
\* reverse of a link on such a Path, and every node marked with P is the
\* owning node of such a link or a host whose main partition is P.
C12_MarkedOnlyIfCarryingOrHost ==
    pc = "done"
    => \A P \in 0..(Len(partitions) - 1) :
           /\ C12_LinksAndEdgesCarry(P)
           /\ MarkedNodes(P) \subseteq
                 {Deref(nodes, l).parent_node : l \in CarryingOrReverse(P)}
                 \cup {n \in Hosts : nodes[n].main_partition = P}

\* C12's case: a path between two hosts of one partition, marked, and a path
\* between hosts of two partitions.
C12_Witness ==
    /\ pc = "done"
    /\ \E P \in 0..(Len(partitions) - 1) : MarkedLinks(P) # {}
    /\ \E s \in 1..Len(paths) :
          \E d \in 1..Len(paths[s].dest) :
              nodes[paths[s].node].main_partition
                  # nodes[paths[s].dest[d].node].main_partition

\* C12 as stated: every link, edge and node marked with P lies on a recorded
\* Path between two hosts of main partition P or is the reverse of a link on
\* such a Path.
C12_MarkedOnlyIfCarrying ==
    pc = "done"
    => \A P \in 0..(Len(partitions) - 1) :
           /\ C12_LinksAndEdgesCarry(P)
           /\ MarkedNodes(P) \subseteq
                 {Deref(nodes, l).parent_node : l \in CarryingOrReverse(P)}

\* C13, with the pairs cabled directly: with no routing directory, the
\* Routing Table Store being empty, build_paths records a Path for a pair of
\* hosts exactly when the link at the first index of the source's first edge
\* leads to the destination, and that Path is that one link; no Path is
\* recorded for any other pair.
C13_OnlyDirectPaths ==
    routes = <<>>
    => \A sd \in HostPairs :
           /\ (RecordedAt(sd[1], sd[2]) # {})
                  <=> /\ Replayed(sd[1], sd[2])
                      /\ Deref(nodes, FirstIndexOfFirstEdge(sd[1])).dest = sd[2]
           /\ \A p \in RecordedAt(sd[1], sd[2]) :
                  paths[p[1]].dest[p[2]].links =
                      <<FirstIndexOfFirstEdge(sd[1])>>

\* C13's case: build_paths has returned with no routing table, one pair of
\* hosts has a path and another pair has none.
C13_Witness ==
    /\ pc = "set_partitions"
    /\ routes = <<>>
    /\ \E sd \in HostPairs : RecordedAt(sd[1], sd[2]) # {}
    /\ \E sd \in HostPairs : RecordedAt(sd[1], sd[2]) = {}

\* C13 as stated: when the routing directory is absent no Path is recorded
\* for any pair of hosts, whatever the discovered graph.
C13_NoPathWithoutRoutes ==
    routes = <<>> => \A s \in 1..Len(paths) : paths[s].dest = <<>>

\* The graph and the counters after the first k of the records ls, read in a
\* subnet that is processed first.
RECURSIVE Ingest(_, _)
Ingest(ls, k) ==
    IF k = 0 THEN [nodes |-> <<>>, unknown_node_id |-> 0, faults |-> FALSE]
    ELSE add_link_src(
             get_node(Ingest(ls, k - 1).nodes,
                      Ingest(ls, k - 1).unknown_node_id, ls[k].src_type,
                      ls[k].src_lid, ls[k].src_guid, ls[k].src_desc),
             k - 1, ls[k])

\* C14: no mutable state carries over from one subnet to the next: when the
\* processing of a subnet starts the node, routing-table, path and partition
\* collections are empty and the link counter and the anonymous-host counter
\* have their initial values, so the model built from a subnet's records,
\* placeholder hostnames included, is the one built when the subnet is
\* processed first.
C14_SubnetsIndependent ==
    pc = "read_discover"
    => /\ lines = <<>>
          => /\ nodes = <<>> /\ routes = <<>> /\ paths = <<>>
             /\ partitions = <<>>
             /\ global_link_idx = 0 /\ unknown_node_id = 0
       /\ nodes = Ingest(lines, Len(lines)).nodes

\* A linked-port record: the only line with a peer.
IsLinkedPort(line) == "dest_guid" \in DOMAIN line

\* C15: the graph produced by ingesting a sequence of discovery lines is the
\* graph produced by ingesting only its linked-port records in the same
\* order: a DR line, an unlinked-port record or a line that is not
\* recognized creates or changes no Node, Edge or Physical Link, and
\* read_discover goes on to the later records of the file.
C15_OtherLinesLeaveGraph ==
    /\ pc = "read_discover"
       => nodes = Ingest(SelectSeq(lines, IsLinkedPort),
                         Len(SelectSeq(lines, IsLinkedPort))).nodes
    /\ unknown_node_id =
          Ingest(SelectSeq(lines, IsLinkedPort),
                 Len(SelectSeq(lines, IsLinkedPort))).unknown_node_id
    /\ global_link_idx = Len(SelectSeq(lines, IsLinkedPort))
    /\ pc \in {"read_discover", "stat_routes"}

\* C15's case: an unlinked port of a device not seen before, read between two
\* linked-port records that were both ingested.
C15_Witness ==
    /\ Len(lines) = 3
    /\ IsLinkedPort(lines[1])
    /\ ~IsLinkedPort(lines[2]) /\ lines[2].kind = "unlinked"
    /\ lines[2].src_guid = GuidD
    /\ IsLinkedPort(lines[3])
    /\ lines[1].src_guid # lines[3].src_guid
    /\ Len(nodes) = 2

\* C16: a route-level gap never aborts the run: when the routing entry of the
\* current node names an egress port at which the node has no physical link
\* (port 0, a port beyond the port collection, or an empty slot), the pair
\* ends as "no path" and build_paths goes on, with no failed assertion and no
\* dereference of a missing link or node.
C16_GapEndsAsNoPath == pc # "crashed_build_paths"

\* C17: the Routing Table Store is a map: after read_routes has loaded any
\* sequence of header and entry lines there is one entry per switch
\* identifier and, per switch, at most one egress port per destination
\* identifier.
C17_RoutesAreAMap ==
    \A r \in 1..Len(routes) :
        /\ \A q \in 1..Len(routes) :
              routes[q].physical_id = routes[r].physical_id => q = r
        /\ \A i, j \in 1..Len(routes[r].dest) :
              routes[r].dest[i].physical_id = routes[r].dest[j].physical_id
                  => i = j

\* C18: in node_find_hostname every write into the hostname buffer, the
\* terminating NUL included, is at an index smaller than the buffer's
\* allocated size, the length of the description: the characters go to the
\* indices below hostname_end and the NUL to hostname_end.
C18_HostnameWritesInBuffer ==
    \A n \in 1..Len(nodes) :
        hostname_end(nodes[n].description) < Len(nodes[n].description)

====
